---- MODULE Spec2Model ----
(***************************************************************************)
(* Model of check_hash.py: the monitor that consumes container lifecycle   *)
(* events, decides once per container id whether its image is registered   *)
(* in the policy, audits the decision and enforces a block by stop/remove.  *)
(* The container runtime (docker) is the environment: containers start,     *)
(* stop and disappear concurrently with the monitor, and any API call may   *)
(* fail.                                                                    *)
(***************************************************************************)
EXTENDS Integers, Sequences, FiniteSets, TLC

VARIABLES
  pc,                 \* position of main(): boot, load, wait, reload, stop, remove, exit0, exit1, crashed, ended
  safe_mode,          \* args.safe_mode
  allow_unregistered, \* args.allow_unregistered
  policyFile,         \* content of POLICY_FILE on disk
  policy,             \* the dict main() got from load_policy()
  decisions,          \* decisions: dict container id -> bool
  auditLog,           \* the records appended to AUDIT_LOG
  rt,                 \* runtime: state of each container (running, stopped, gone)
  cur,                \* container_id of the event being handled
  attrsRunning,       \* container.attrs["State"]["Running"] of the fetched container object
  steps,              \* what the handling of the current event did, in order
  calls,              \* stop/remove calls issued to the runtime, per container id
  computed,           \* number of verdicts computed, per container id
  attempts,           \* number of enforce_block invocations, per container id
  exitFrom,           \* what ended the process: the failed ping, the position of the interrupt, or the stream
  loads,              \* number of load_policy() calls
  call,               \* a call of decide: its arguments and its result (DecideSpec only)
  nEvents             \* events consumed from client.events()

vars == <<pc, safe_mode, allow_unregistered, policyFile, policy, decisions, auditLog,
          rt, cur, attrsRunning, steps, calls, computed, attempts, exitFrom, loads, call, nEvents>>

\* Bound: number of events taken from the event stream.
MaxEvents == 2

\* Optional[str]: None is the empty tuple, a value v is <<v>>.
None == <<>>
Some(v) == <<v>>

\* The sequence st holds the entry tag.
Has(st, tag) == \E i \in 1..Len(st) : st[i] = tag

\* Strings that are parsed or compared are sequences of characters.
Cids == {"c1", "c2"}
DigestAB == <<"a", "b">>

\* The images of the containers: attrs as the inspection API returns them.
\*  c1: untagged image with repo digest "r@ab" and local id "x"
\*  c2: no identity at all: no repo digest, no Id, no tag
ImageOf(c) ==
  IF c = "c1"
  THEN [RepoDigests |-> << <<"r", "@", "a", "b">> >>, Id |-> Some(<<"x">>), RepoTags |-> << >>]
  ELSE [RepoDigests |-> << >>, Id |-> None, RepoTags |-> << >>]

\* What register_image.py leaves in policy.json for the image of c1, registered as "t":
\* the name and the digest as keys.
RegisteredKeys == {<<"t">>, DigestAB}

\* The keys of a policy that registers other images only: their digests are a proper
\* prefix and a proper extension of the digest of c1.
OtherKeys == {<<"a">>, <<"a", "b", "c">>}

\* The file is missing, is not JSON, holds a map, or holds JSON null.
PolicyFiles ==
  { [kind |-> "missing"], [kind |-> "corrupt"],
    [kind |-> "json", isMap |-> TRUE, keys |-> RegisteredKeys],
    [kind |-> "json", isMap |-> TRUE, keys |-> OtherKeys],
    [kind |-> "json", isMap |-> FALSE, keys |-> {}] }

\* register_image.py run for the image of c1 under the name "t": the policy is read
\* (missing file: {}), the two keys are set and the file is rewritten. An unparseable
\* file and a JSON value that takes no item assignment make it fail before the write.
register_image(file) ==
  CASE file.kind = "missing" -> [kind |-> "json", isMap |-> TRUE, keys |-> RegisteredKeys]
    [] file.kind = "json" /\ file.isMap ->
         [kind |-> "json", isMap |-> TRUE, keys |-> file.keys \cup RegisteredKeys]
    [] OTHER -> file

----------------------------------------------------------------------------
\* Pure functions

\* str.split("@", 1): the parts before and after the first "@", or the whole string.
RECURSIVE IndexOf(_, _, _)
IndexOf(s, ch, i) ==
  IF i > Len(s) THEN 0
  ELSE IF s[i] = ch THEN i
  ELSE IndexOf(s, ch, i + 1)

SplitAt1(s) ==
  LET k == IndexOf(s, "@", 1)
  IN IF k = 0 THEN <<s>>
     ELSE <<SubSeq(s, 1, k - 1), SubSeq(s, k + 1, Len(s))>>

\* get_image_digest preferring the local id to the repo digest.
get_image_digest_id_first(image) ==
  IF image.Id # None THEN image.Id
  ELSE IF Len(image.RepoDigests) > 0 /\ Len(SplitAt1(image.RepoDigests[1])) > 1
  THEN Some(SplitAt1(image.RepoDigests[1])[2])
  ELSE None

\* get_image_digest: first repo digest after "@", else image.id.
get_image_digest(image) ==
  IF Len(image.RepoDigests) > 0 /\ Len(SplitAt1(image.RepoDigests[1])) > 1
  THEN Some(SplitAt1(image.RepoDigests[1])[2])
  ELSE image.Id

\* container.image.tags[0] if container.image.tags else None
image_name_of(image) ==
  IF Len(image.RepoTags) > 0 THEN Some(image.RepoTags[1]) ELSE None

\* Python truthiness of an Optional[str].
Truthy(o) == o # None /\ Len(o[1]) > 0

\* load_policy that takes an unreadable or missing file for the policy of c1.
load_policy_keep(file) ==
  IF file.kind = "json" THEN [isMap |-> file.isMap, keys |-> file.keys]
  ELSE [isMap |-> TRUE, keys |-> RegisteredKeys]

\* load_policy: the dict read from the file, {} when missing or unreadable.
load_policy(file) ==
  IF file.kind = "json" THEN [isMap |-> file.isMap, keys |-> file.keys]
  ELSE [isMap |-> TRUE, keys |-> {}]

\* Whether one string is a prefix of the other.
IsPrefix(x, y) == Len(x) <= Len(y) /\ SubSeq(y, 1, Len(x)) = x

\* verify_digest matching a key by prefix instead of equality.
verify_digest_prefix(digest, image_name, pol, allow) ==
  IF Truthy(digest) /\ \E k \in pol.keys : IsPrefix(k, digest[1]) \/ IsPrefix(digest[1], k)
  THEN TRUE
  ELSE allow

\* verify_digest that never looks the digest up.
verify_digest_flag_only(digest, image_name, pol, allow) == allow

\* verify_digest: True if the digest is a key of the policy, else the flag.
verify_digest(digest, image_name, pol, allow) ==
  IF Truthy(digest) /\ digest[1] \in pol.keys THEN TRUE
  ELSE allow

\* "digest in policy" raises TypeError when the loaded JSON value is no container.
verify_raises(digest, pol) == Truthy(digest) /\ ~pol.isMap

\* audit(): ensure_dirs() is outside the try and raises ("dirfail"); a failed open/write
\* is caught and logged ("writefail"); otherwise one record is appended.
AuditOutcomes == {"ok", "writefail", "dirfail"}

audit(log, event, container_id, outcome) ==
  IF outcome = "ok" THEN Append(log, [event |-> event, container_id |-> container_id])
  ELSE log

audit_steps(event, outcome) ==
  CASE outcome = "ok"        -> <<"audit_" \o event>>
    [] outcome = "writefail" -> <<"audit_" \o event \o "_failed", "warn_audit">>
    [] OTHER                 -> <<"audit_" \o event \o "_raised">>

----------------------------------------------------------------------------
\* The events of client.events(decode=True)
Events ==
  { [dict |-> TRUE, Type |-> "container", Action |-> a, id |-> Some(c)] :
      a \in {"create", "start"}, c \in Cids }
  \cup { [dict |-> TRUE, Type |-> "container", Action |-> "die", id |-> Some("c1")],
         [dict |-> TRUE, Type |-> "image", Action |-> "create", id |-> Some("c1")],
         [dict |-> TRUE, Type |-> "container", Action |-> "create", id |-> None],
         [dict |-> FALSE, Type |-> "", Action |-> "", id |-> None] }

\* The state one event's handling leaves, before enforce_block runs:
\* dec the decisions, log the audit log, st the steps, comp the verdict counts,
\* enforce whether enforce_block is called, cid the container id.
Result(dec, log, st, comp, enforce, cid) ==
  [dec |-> dec, log |-> log, st |-> st, comp |-> comp, enforce |-> enforce, cid |-> cid]

\* A cache that is never hit.
Cached_never(cid) == FALSE

\* Lines 243 and 256: "container_id not in decisions", negated.
Cached(cid) == cid \in DOMAIN decisions

\* Every cached verdict is enforced again, whatever it is.
Reassert_always(cid) == TRUE

\* A cached verdict that is never enforced again.
Reassert_never(cid) == FALSE

\* Lines 252 and 271: a cached False verdict is enforced again.
Reassert(cid) == decisions[cid] = FALSE

\* Line 257: the start branch blocks by default without image name and digest.
NoMetadata(image_name, digest) == ~Truthy(image_name) /\ ~Truthy(digest)

\* The verdict an event of the given action computes (lines 244, 257-263).
decide(action, digest, image_name, pol, allow) ==
  IF action = "start" /\ NoMetadata(image_name, digest) THEN FALSE
  ELSE verify_digest(digest, image_name, pol, allow)

\* Enforcing whatever the verdict.
EnforceAfter_always(allowed) == TRUE

\* Lines 246-250 and 265-269: enforce_block is called after the audit of a verdict
\* that is False.
EnforceAfter(allowed) == ~allowed

\* The policy file read again for every verdict.
PolicyInUse_reread == load_policy(policyFile)

\* Lines 244 and 263: the policy passed to verify_digest is the local of line 176.
PolicyInUse == policy

\* Lines 243-253 and 256-272: decide once per container id, cache, audit, and
\* enforce a block; a cached block is enforced again.
DecideBranch(action, cid, digest, image_name, log, st, a2) ==
  IF ~Cached(cid)
  THEN LET default == action = "start" /\ NoMetadata(image_name, digest)
       IN IF ~default /\ verify_raises(digest, PolicyInUse)
          THEN Result(decisions, log, st \o <<"verify_raised", "warn_event">>, computed,
                      FALSE, cid)
          ELSE LET allowed == decide(action, digest, image_name, PolicyInUse, allow_unregistered)
                   dec == [c \in DOMAIN decisions \cup {cid} |->
                             IF c = cid THEN allowed ELSE decisions[c]]
                   comp == [computed EXCEPT ![cid] = @ + 1]
                   ev == IF allowed THEN "ALLOWED" ELSE "BLOCKED"
                   st2 == st \o <<IF default THEN "default_block" ELSE "verify", "cache">>
                             \o audit_steps(ev, a2)
               IN IF a2 = "dirfail"
                  THEN Result(dec, log, st2 \o <<"warn_event">>, comp, FALSE, cid)
                  ELSE Result(dec, audit(log, ev, cid, a2), st2, comp, EnforceAfter(allowed), cid)
  ELSE Result(decisions, log, st, computed, Reassert(cid), cid)

\* Lines 236-253: the create branch.
CreateBranch(cid, digest, image_name, a1, a2) ==
  IF a1 = "dirfail"
  THEN Result(decisions, auditLog, <<"get">> \o audit_steps("CREATED", a1) \o <<"warn_event">>,
              computed, FALSE, cid)
  ELSE DecideBranch("create", cid, digest, image_name, audit(auditLog, "CREATED", cid, a1),
                    <<"get">> \o audit_steps("CREATED", a1), a2)

\* Lines 255-272: the start branch.
StartBranch(cid, digest, image_name, a2) ==
  DecideBranch("start", cid, digest, image_name, auditLog, <<"get">>, a2)

\* Handling every event of a container, whatever its action.
Relevant_any_action(e) == e.Type = "container"

\* Line 225: only create and start events of containers are handled.
Relevant(e) == e.Type = "container" /\ e.Action \in {"create", "start"}

\* What the event is, for the record of its handling: a create or start event of a
\* container, or any other event.
EventTag(e) ==
  IF e.dict /\ e.Type = "container" /\ e.Action \in {"create", "start"} THEN << >>
  ELSE <<"other_event">>

\* Lines 224-274: the body of the loop for one event, up to the call of enforce_block.
\* lookup: what client.containers.get and container.image answer; a1, a2: what the
\* audit calls of the event do.
Handle(e, lookup, a1, a2) ==
  IF ~e.dict
  THEN Result(decisions, auditLog, <<"warn_event">>, computed, FALSE, "")
  ELSE IF ~Relevant(e)
  THEN Result(decisions, auditLog, <<>>, computed, FALSE, "")
  ELSE LET container_id == IF e.id = None THEN "<unknown>" ELSE e.id[1]
       IN IF ~(lookup # "get_failed" /\ container_id \in Cids /\ rt[container_id] # "gone")
          THEN Result(decisions, auditLog, <<"warn_get">>, computed, FALSE, container_id)
          ELSE IF lookup = "image_failed"
          THEN Result(decisions, auditLog, <<"get", "image_raised", "warn_event">>, computed,
                      FALSE, container_id)
          ELSE LET image == ImageOf(container_id)
                   image_name == image_name_of(image)
                   digest == get_image_digest(image)
               IN IF e.Action = "create"
                  THEN CreateBranch(container_id, digest, image_name, a1, a2)
                  ELSE StartBranch(container_id, digest, image_name, a2)

\* The inputs of one iteration: the event, the answers of the runtime to the lookups
\* and the behaviour of the audit sink while the event is handled. Inputs the
\* handling never reads are fixed.
Inputs ==
  { i \in [e : Events, lookup : {"ok", "get_failed", "image_failed"}, a : AuditOutcomes] :
      /\ (~i.e.dict \/ i.e.Type # "container" \/ i.e.Action \notin {"create", "start"}
            \/ i.e.id = None) => (i.lookup = "ok" /\ i.a = "ok")
      /\ i.lookup # "ok" => i.a = "ok" }

----------------------------------------------------------------------------
\* State machine

Looping == {"wait", "reload", "stop", "remove"}
Exited == {"exit0", "exit1", "crashed", "ended"}

NoCall == [made |-> FALSE]

Init ==
  /\ pc = "boot"
  /\ safe_mode \in BOOLEAN
  /\ allow_unregistered \in BOOLEAN
  /\ policyFile \in PolicyFiles
  /\ policy = [isMap |-> TRUE, keys |-> {}]
  /\ decisions = << >>
  /\ auditLog = << >>
  /\ rt = [c \in Cids |-> "stopped"]
  /\ cur = ""
  /\ attrsRunning = FALSE
  /\ steps = << >>
  /\ calls = [c \in Cids |-> [stop |-> 0, remove |-> 0]]
  /\ computed = [c \in Cids |-> 0]
  /\ attempts = [c \in Cids |-> 0]
  /\ exitFrom = ""
  /\ loads = 0
  /\ call = NoCall
  /\ nEvents = 0

\* Going on whatever the ping answered.
AfterSelfCheck_ignore(reachable) == "load"

\* Lines 173-174: sys.exit(1) when self_check returns False.
AfterSelfCheck(reachable) == IF reachable THEN "load" ELSE "exit1"

\* main, lines 172-174, and self_check: exit 1 when the daemon does not answer the ping.
SelfCheck(reachable) ==
  /\ pc = "boot"
  /\ pc' = AfterSelfCheck(reachable)
  /\ exitFrom' = IF reachable THEN exitFrom ELSE "ping"
  /\ UNCHANGED <<safe_mode, allow_unregistered, policyFile, policy, decisions, auditLog, rt,
                 cur, attrsRunning, steps, calls, computed, attempts, loads, call, nEvents>>

\* main, line 176: the policy is read once, before the loop.
LoadPolicy ==
  /\ pc = "load"
  /\ policy' = load_policy(policyFile)
  /\ loads' = loads + 1
  /\ pc' = "wait"
  /\ UNCHANGED <<safe_mode, allow_unregistered, policyFile, decisions, auditLog, rt,
                 cur, attrsRunning, steps, calls, computed, attempts, exitFrom, nEvents, call>>

\* An exception of the handling that is not caught ends the process.
AfterEvent_uncaught(r) ==
  IF Has(r.st, "warn_event") THEN "crashed" ELSE IF r.enforce THEN "reload" ELSE "wait"

\* Lines 224 and 273-274: whatever the handling of the event did or raised, the loop
\* goes on: into enforce_block if it is called, else to the next event.
AfterEvent(r) == IF r.enforce THEN "reload" ELSE "wait"

\* One iteration of the loop, up to the call of enforce_block (whose first step is reload).
HandleEvent(i) ==
  /\ pc = "wait"
  /\ nEvents < MaxEvents
  /\ nEvents' = nEvents + 1
  /\ LET r == Handle(i.e, i.lookup, i.a, i.a)
     IN /\ decisions' = r.dec
        /\ auditLog' = r.log
        /\ computed' = r.comp
        /\ cur' = r.cid
        /\ pc' = AfterEvent(r)
        /\ IF r.enforce
           THEN /\ steps' = EventTag(i.e) \o r.st \o <<"enforce">>
                /\ attrsRunning' = (rt[r.cid] = "running")
                /\ attempts' = [attempts EXCEPT ![r.cid] = @ + 1]
           ELSE /\ steps' = EventTag(i.e) \o r.st
                /\ attrsRunning' = FALSE
                /\ attempts' = attempts
  /\ UNCHANGED <<safe_mode, allow_unregistered, policyFile, policy, rt, calls, exitFrom, loads, call>>

\* Safe mode stopping whatever state it found.
AfterReload_safe_stops(running, safe) ==
  IF running \/ safe THEN "stop" ELSE "remove"

\* Removing a running container without stopping it first.
AfterReload_skip_stop(running, safe) ==
  IF safe THEN (IF running THEN "stop" ELSE "wait") ELSE "remove"

\* Lines 203-215: what enforce_block does next for the state it found.
AfterReload(running, safe) ==
  IF running THEN "stop" ELSE IF safe THEN "wait" ELSE "remove"

\* Removing after the stop whatever the mode.
AfterStop_always_remove(safe) == "remove"

\* Lines 206-208: after a stop that returned, remove unless safe mode.
AfterStop(safe) == IF safe THEN "wait" ELSE "remove"

\* What container.reload() answers for a container in state s.
ReloadAnswers(s) == IF s = "gone" THEN {"notfound", "error"} ELSE {"ok", "error"}

\* A state query that never sees a running container.
Refreshed_never_running(answer, s, stale) == FALSE

\* Lines 193-201: the state enforce_block works with: refreshed if reload answered,
\* else (any exception of reload is swallowed) the attrs of the fetched object.
Refreshed(answer, s, stale) == IF answer = "ok" THEN s = "running" ELSE stale

\* enforce_block, lines 192-205 and 209-214: refresh the state, then choose what to do.
EnforceReload(answer) ==
  /\ pc = "reload"
  /\ answer \in ReloadAnswers(rt[cur])
  /\ LET running == Refreshed(answer, rt[cur], attrsRunning)
     IN /\ pc' = AfterReload(running, safe_mode)
        /\ attrsRunning' = running
        /\ steps' = steps \o <<"reload_" \o answer>>
                      \o <<IF running THEN "saw_running" ELSE "saw_stopped">>
                      \o (IF pc' = "wait" THEN <<"left_in_place">> ELSE << >>)
  /\ UNCHANGED <<safe_mode, allow_unregistered, policyFile, policy, decisions, auditLog, rt,
                 cur, calls, computed, attempts, exitFrom, loads, call, nEvents>>

\* What a stop or remove call can answer for a container in state s.
StopAnswers(s) == IF s = "gone" THEN {"notfound", "error"} ELSE {"ok", "error"}
RemoveAnswers(s) ==
  CASE s = "gone"    -> {"notfound", "error"}
    [] s = "running" -> {"error"}
    [] OTHER         -> {"ok", "error"}

\* An error that is swallowed without a warning.
Caught_silent(answer) ==
  IF answer = "notfound" THEN <<"info_gone">> ELSE << >>

\* How enforce_block ends after a call answered notfound or error (lines 216-220).
Caught(answer) ==
  IF answer = "notfound" THEN <<"info_gone">> ELSE <<"warn_enforce">>

\* enforce_block, lines 206-208: container.stop(), then remove unless safe mode.
EnforceStop(answer) ==
  /\ pc = "stop"
  /\ answer \in StopAnswers(rt[cur])
  /\ calls' = [calls EXCEPT ![cur].stop = @ + 1]
  /\ IF answer = "ok"
     THEN /\ rt' = [rt EXCEPT ![cur] = "stopped"]
          /\ steps' = steps \o <<"stop_ok">>
          /\ pc' = AfterStop(safe_mode)
     ELSE /\ rt' = rt
          /\ steps' = steps \o <<"stop_" \o answer>> \o Caught(answer)
          /\ pc' = "wait"
  /\ UNCHANGED <<safe_mode, allow_unregistered, policyFile, policy, decisions, auditLog,
                 cur, attrsRunning, computed, attempts, exitFrom, loads, call, nEvents>>

\* enforce_block, lines 208 and 215: container.remove().
EnforceRemove(answer) ==
  /\ pc = "remove"
  /\ answer \in RemoveAnswers(rt[cur])
  /\ calls' = [calls EXCEPT ![cur].remove = @ + 1]
  /\ IF answer = "ok"
     THEN /\ rt' = [rt EXCEPT ![cur] = "gone"]
          /\ steps' = steps \o <<"remove_ok">>
     ELSE /\ rt' = rt
          /\ steps' = steps \o <<"remove_" \o answer>> \o Caught(answer)
  /\ pc' = "wait"
  /\ UNCHANGED <<safe_mode, allow_unregistered, policyFile, policy, decisions, auditLog,
                 cur, attrsRunning, computed, attempts, exitFrom, loads, call, nEvents>>

\* Leaving the loop ends the process: its memory (the decision cache, the locals)
\* is gone; what it wrote to the audit log and did to the runtime stays.
Leave(code, from) ==
  /\ pc' = code
  /\ exitFrom' = from
  /\ decisions' = << >>
  /\ cur' = ""
  /\ attrsRunning' = FALSE
  /\ steps' = << >>
  /\ UNCHANGED <<safe_mode, allow_unregistered, policyFile, policy, auditLog, rt,
                 calls, computed, attempts, loads, call, nEvents>>

\* Lines 276-279: KeyboardInterrupt anywhere in the loop exits with code 0.
Interrupt ==
  /\ pc \in Looping
  /\ Leave("exit0", pc)

\* Line 223: the iterator of client.events() ends, or raises: neither is caught by
\* the try of line 224, and only KeyboardInterrupt is caught by the try of line 222.
StreamStops(raised) ==
  /\ pc = "wait"
  /\ Leave(IF raised THEN "crashed" ELSE "ended", "stream")

\* Another process registers the image of c1 while the monitor runs. The monitor
\* reads the file at line 176 only, so the registration is taken between two events.
Register ==
  /\ pc = "wait" /\ nEvents < MaxEvents
  /\ register_image(policyFile) # policyFile
  /\ policyFile' = register_image(policyFile)
  /\ UNCHANGED <<pc, safe_mode, allow_unregistered, policy, decisions, auditLog, rt,
                 cur, attrsRunning, steps, calls, computed, attempts, exitFrom, loads, call, nEvents>>

\* The runtime, outside the monitor: a container is started, stops, or is removed.
\* Between two steps of enforce_block only the container it works on is moved: a
\* change to another container commutes with these steps, and is taken before or after.
\* Once the last event is handled nothing reads the runtime any more.
Runtime(c, to) ==
  /\ (pc = "wait" /\ nEvents < MaxEvents) \/ (pc \in Looping \ {"wait"} /\ c = cur)
  /\ \/ rt[c] = "stopped" /\ to = "running"
     \/ rt[c] = "running" /\ to = "stopped"
     \/ rt[c] # "gone" /\ to = "gone"
  /\ rt' = [rt EXCEPT ![c] = to]
  /\ UNCHANGED <<pc, safe_mode, allow_unregistered, policyFile, policy, decisions, auditLog,
                 cur, attrsRunning, steps, calls, computed, attempts, exitFrom, loads, call, nEvents>>

Next ==
  \/ \E reachable \in BOOLEAN : SelfCheck(reachable)
  \/ LoadPolicy
  \/ \E i \in Inputs : HandleEvent(i)
  \/ \E answer \in {"ok", "notfound", "error"} : EnforceReload(answer)
  \/ \E answer \in {"ok", "notfound", "error"} : EnforceStop(answer)
  \/ \E answer \in {"ok", "notfound", "error"} : EnforceRemove(answer)
  \/ Interrupt
  \/ \E raised \in BOOLEAN : StreamStops(raised)
  \/ \E c \in Cids, to \in {"running", "stopped", "gone"} : Runtime(c, to)
  \/ Register

Spec == Init /\ [][Next]_vars

----------------------------------------------------------------------------
\* The decision as a function: decide applied to every digest, image name, policy
\* map and flag of a small universe of strings.

Strs == {<<"a">>, <<"b">>, <<"a", "b">>, <<"a", "b", "c">>}

DecideArgs ==
  [action : {"create", "start"}, digest : {None} \cup {Some(d) : d \in Strs},
   image_name : {None, Some(<<"t">>)}, keys : SUBSET Strs, allow : BOOLEAN]

DecideInit ==
  /\ pc = "decide"
  /\ safe_mode = FALSE
  /\ allow_unregistered = FALSE
  /\ policyFile = [kind |-> "missing"]
  /\ policy = [isMap |-> TRUE, keys |-> {}]
  /\ decisions = << >>
  /\ auditLog = << >>
  /\ rt = [c \in Cids |-> "stopped"]
  /\ cur = ""
  /\ attrsRunning = FALSE
  /\ steps = << >>
  /\ calls = [c \in Cids |-> [stop |-> 0, remove |-> 0]]
  /\ computed = [c \in Cids |-> 0]
  /\ attempts = [c \in Cids |-> 0]
  /\ exitFrom = ""
  /\ loads = 0
  /\ nEvents = 0
  /\ \E args \in DecideArgs : call = [made |-> FALSE, args |-> args]

DecideCall ==
  /\ pc = "decide"
  /\ ~call.made
  /\ call' = [made |-> TRUE, args |-> call.args,
              result |-> decide(call.args.action, call.args.digest, call.args.image_name,
                                [isMap |-> TRUE, keys |-> call.args.keys], call.args.allow)]
  /\ UNCHANGED <<pc, safe_mode, allow_unregistered, policyFile, policy, decisions, auditLog,
                 rt, cur, attrsRunning, steps, calls, computed, attempts, exitFrom, loads,
                 nEvents>>

DecideSpec == DecideInit /\ [][DecideCall]_vars

----------------------------------------------------------------------------
\* Identity resolution as a function: get_image_digest applied to every image whose
\* RepoDigests is a list of at most MaxRepoDigests entries and whose Id is set or not.

\* Bound: length of the RepoDigests list of an image.
MaxRepoDigests == 2

\* Entries of RepoDigests: "r@ab", "ab" (no separator), "r@a@b", "@a", "r@", "".
DigestStrs ==
  { <<"r", "@", "a", "b">>, <<"a", "b">>, <<"r", "@", "a", "@", "b">>, <<"@", "a">>,
    <<"r", "@">>, << >> }

RECURSIVE SeqsUpTo(_, _)
SeqsUpTo(S, n) ==
  IF n = 0 THEN {<< >>}
  ELSE SeqsUpTo(S, n - 1) \cup {Append(q, x) : q \in {r \in SeqsUpTo(S, n - 1) : Len(r) = n - 1}, x \in S}

DigestImages ==
  [RepoDigests : SeqsUpTo(DigestStrs, MaxRepoDigests), Id : {None, Some(<<"x">>)},
   RepoTags : {<< >>}]

DigestInit ==
  /\ pc = "digest"
  /\ safe_mode = FALSE
  /\ allow_unregistered = FALSE
  /\ policyFile = [kind |-> "missing"]
  /\ policy = [isMap |-> TRUE, keys |-> {}]
  /\ decisions = << >>
  /\ auditLog = << >>
  /\ rt = [c \in Cids |-> "stopped"]
  /\ cur = ""
  /\ attrsRunning = FALSE
  /\ steps = << >>
  /\ calls = [c \in Cids |-> [stop |-> 0, remove |-> 0]]
  /\ computed = [c \in Cids |-> 0]
  /\ attempts = [c \in Cids |-> 0]
  /\ exitFrom = ""
  /\ loads = 0
  /\ nEvents = 0
  /\ \E image \in DigestImages : call = [made |-> FALSE, args |-> image]

DigestCall ==
  /\ pc = "digest"
  /\ ~call.made
  /\ call' = [made |-> TRUE, args |-> call.args, result |-> get_image_digest(call.args)]
  /\ UNCHANGED <<pc, safe_mode, allow_unregistered, policyFile, policy, decisions, auditLog,
                 rt, cur, attrsRunning, steps, calls, computed, attempts, exitFrom, loads,
                 nEvents>>

DigestSpec == DigestInit /\ [][DigestCall]_vars

----------------------------------------------------------------------------
\* The loop running for ever: the monitor has loaded an empty policy without
\* allow-unregistered and waits for events; it is not interrupted and the stream
\* does not stop. What only grows (the audit log and the counters of the history) is
\* left out, and nEvents counts the events modulo 2. The events are the create and
\* start events of one container: enforce_block works on the container of the event
\* it was called for, and events of other containers only delay it.

LiveCids == {"c1"}

LiveInit ==
  /\ pc = "wait"
  /\ safe_mode \in BOOLEAN
  /\ allow_unregistered = FALSE
  /\ policyFile = [kind |-> "missing"]
  /\ policy = load_policy(policyFile)
  /\ decisions = << >>
  /\ auditLog = << >>
  /\ rt \in {r \in [Cids -> {"running", "stopped"}] : \A c \in Cids \ LiveCids : r[c] = "stopped"}
  /\ cur = ""
  /\ attrsRunning = FALSE
  /\ steps = << >>
  /\ calls = [c \in Cids |-> [stop |-> 0, remove |-> 0]]
  /\ computed = [c \in Cids |-> 0]
  /\ attempts = [c \in Cids |-> 0]
  /\ exitFrom = ""
  /\ loads = 1
  /\ call = NoCall
  /\ nEvents = 0

\* One iteration of the loop, as HandleEvent.
LiveEvent(i) ==
  /\ pc = "wait"
  /\ nEvents' = 1 - nEvents
  /\ LET r == Handle(i.e, i.lookup, i.a, i.a)
     IN /\ decisions' = r.dec
        /\ cur' = r.cid
        /\ pc' = AfterEvent(r)
        /\ IF r.enforce
           THEN /\ steps' = EventTag(i.e) \o r.st \o <<"enforce">>
                /\ attrsRunning' = (rt[r.cid] = "running")
           ELSE /\ steps' = EventTag(i.e) \o r.st
                /\ attrsRunning' = FALSE
  /\ UNCHANGED <<safe_mode, allow_unregistered, policyFile, policy, auditLog, rt, calls,
                 computed, attempts, exitFrom, loads, call>>

\* container.stop() in enforce_block, as EnforceStop.
LiveStop(answer) ==
  /\ pc = "stop"
  /\ answer \in StopAnswers(rt[cur])
  /\ IF answer = "ok"
     THEN /\ rt' = [rt EXCEPT ![cur] = "stopped"]
          /\ steps' = steps \o <<"stop_ok">>
          /\ pc' = AfterStop(safe_mode)
     ELSE /\ rt' = rt
          /\ steps' = steps \o <<"stop_" \o answer>> \o Caught(answer)
          /\ pc' = "wait"
  /\ UNCHANGED <<safe_mode, allow_unregistered, policyFile, policy, decisions, auditLog,
                 cur, attrsRunning, calls, computed, attempts, exitFrom, loads, call, nEvents>>

\* container.remove() in enforce_block, as EnforceRemove.
LiveRemove(answer) ==
  /\ pc = "remove"
  /\ answer \in RemoveAnswers(rt[cur])
  /\ IF answer = "ok"
     THEN /\ rt' = [rt EXCEPT ![cur] = "gone"]
          /\ steps' = steps \o <<"remove_ok">>
     ELSE /\ rt' = rt
          /\ steps' = steps \o <<"remove_" \o answer>> \o Caught(answer)
  /\ pc' = "wait"
  /\ UNCHANGED <<safe_mode, allow_unregistered, policyFile, policy, decisions, auditLog,
                 cur, attrsRunning, calls, computed, attempts, exitFrom, loads, call, nEvents>>

\* The runtime outside the monitor, as Runtime.
LiveRuntime(c, to) ==
  /\ pc = "wait" \/ c = cur
  /\ \/ rt[c] = "stopped" /\ to = "running"
     \/ rt[c] = "running" /\ to = "stopped"
     \/ rt[c] # "gone" /\ to = "gone"
  /\ rt' = [rt EXCEPT ![c] = to]
  /\ UNCHANGED <<pc, safe_mode, allow_unregistered, policyFile, policy, decisions, auditLog,
                 cur, attrsRunning, steps, calls, computed, attempts, exitFrom, loads, call, nEvents>>

\* The create and start events of container c, with every answer of the lookups and
\* of the audit sink.
EventsFor(c) ==
  {i \in Inputs : i.e.dict /\ Relevant(i.e) /\ i.e.id = Some(c)}

LiveInputs == UNION {EventsFor(c) : c \in LiveCids}

LiveNext ==
  \/ \E i \in LiveInputs : LiveEvent(i)
  \/ \E answer \in {"ok", "notfound", "error"} : EnforceReload(answer)
  \/ \E answer \in {"ok", "notfound", "error"} : LiveStop(answer)
  \/ \E answer \in {"ok", "notfound", "error"} : LiveRemove(answer)
  \/ \E c \in LiveCids, to \in {"running", "stopped", "gone"} : LiveRuntime(c, to)

\* enforce_block runs on: each of its calls returns or raises. Events of the
\* container keep arriving and the loop, whenever it waits, takes them.
LiveFairness ==
  /\ WF_vars(\E answer \in {"ok", "notfound", "error"} : EnforceReload(answer))
  /\ WF_vars(\E answer \in {"ok", "notfound", "error"} : LiveStop(answer))
  /\ WF_vars(\E answer \in {"ok", "notfound", "error"} : LiveRemove(answer))
  /\ \A c \in LiveCids : SF_vars(\E i \in EventsFor(c) : LiveEvent(i))

LiveSpec == LiveInit /\ [][LiveNext]_vars /\ LiveFairness

----------------------------------------------------------------------------
\* Properties

\* The ALLOWED/BLOCKED records of the audit log for container c.
VerdictRecords(log, c) ==
  {i \in 1..Len(log) : log[i].container_id = c /\ log[i].event \in {"ALLOWED", "BLOCKED"}}

HasRecord(log, event, c) ==
  \E i \in 1..Len(log) : log[i].container_id = c /\ log[i].event = event

Digest(c) == get_image_digest(ImageOf(c))
Name(c) == image_name_of(ImageOf(c))
NoIdentity(c) == Digest(c) = None /\ Name(c) = None

\* The digest of the image of c is a key of the loaded policy.
Registered(c) == loads > 0 /\ policy.isMap /\ Digest(c) # None /\ Digest(c)[1] \in policy.keys

StopIssued(st) == Has(st, "stop_ok") \/ Has(st, "stop_notfound") \/ Has(st, "stop_error")
RemoveIssued(st) == Has(st, "remove_ok") \/ Has(st, "remove_notfound") \/ Has(st, "remove_error")

\* enforce_block was called for the current event and has returned.
EnforceDone == pc = "wait" /\ Has(steps, "enforce")

\* The handling of the current event got the container and its image.
Resolved == Has(steps, "get") /\ ~Has(steps, "image_raised")

\* C1: for every container id at most one verdict is computed and at most one
\* ALLOWED/BLOCKED record is appended, and once an id has a cached verdict no step
\* computes a verdict or appends such a record for it.
C1_VerdictAtMostOnce ==
  /\ [](\A c \in Cids : computed[c] <= 1 /\ Cardinality(VerdictRecords(auditLog, c)) <= 1)
  /\ [][\A c \in Cids : Cached(c) =>
           /\ computed'[c] = computed[c]
           /\ VerdictRecords(auditLog', c) = VerdictRecords(auditLog, c)]_vars

\* C1 witness: a second event for an id with a cached verdict and one verdict record
\* has been handled up to the cache.
C1_Witness ==
  /\ nEvents >= 2 /\ cur \in Cids /\ Cached(cur) /\ Resolved
  /\ ~Has(steps, "cache") /\ ~Has(steps, "audit_CREATED_raised")
  /\ Cardinality(VerdictRecords(auditLog, cur)) = 1

\* C2: a container without digest and tag that has a verdict has verdict Block,
\* whatever allow-unregistered and whichever event came first.
C2_NoIdentityBlocked ==
  \A c \in Cids : (Cached(c) /\ NoIdentity(c)) => decisions[c] = FALSE

\* C3: with some identity resolved, the verdict is Allow iff the digest is non-null
\* and equal to a key of the policy, or allow-unregistered is set.
C3_DecideMatchesRule ==
  (call.made /\ (call.args.digest # None \/ call.args.image_name # None)) =>
    call.result = ( \/ (call.args.digest # None /\ \E k \in call.args.keys : k = call.args.digest[1])
                    \/ call.args.allow )

\* C3 witness: a digest that is a proper prefix of one key and a proper extension
\* of another is blocked without the flag.
C3_Witness ==
  /\ call.made /\ call.args.digest = Some(<<"a", "b">>)
  /\ call.args.keys = {<<"a">>, <<"a", "b", "c">>}
  /\ ~call.args.allow /\ call.result = FALSE

\* C4 as claimed: once an event for a registered container has resolved its digest,
\* the container has verdict Allow and an ALLOWED record, and no stop or remove is
\* ever issued for it.
C4_RegisteredAllowedAndRecorded ==
  \A c \in Cids : Registered(c) =>
    /\ calls[c].stop = 0 /\ calls[c].remove = 0
    /\ (pc = "wait" /\ cur = c /\ Resolved) =>
         (Cached(c) /\ decisions[c] = TRUE /\ HasRecord(auditLog, "ALLOWED", c))

\* C4 amended: a registered container never gets another verdict than Allow, whatever
\* the flag; the event that computes the verdict calls the audit for ALLOWED, and the
\* record is appended unless the audit sink fails; no BLOCKED record is written and
\* no enforcement, stop or remove is ever issued for it.
C4_RegisteredAllowed ==
  \A c \in Cids : Registered(c) =>
    /\ calls[c].stop = 0 /\ calls[c].remove = 0 /\ attempts[c] = 0
    /\ ~HasRecord(auditLog, "BLOCKED", c)
    /\ Cached(c) => decisions[c] = TRUE
    /\ (cur = c /\ Has(steps, "cache")) =>
         \/ Has(steps, "audit_ALLOWED") /\ HasRecord(auditLog, "ALLOWED", c)
         \/ Has(steps, "audit_ALLOWED_failed")
         \/ Has(steps, "audit_ALLOWED_raised")

\* C4 witness: a registered container was allowed without the flag, recorded, and a
\* later event for it was handled.
C4_Witness ==
  /\ Registered("c1") /\ ~allow_unregistered
  /\ Cached("c1") /\ decisions["c1"] = TRUE /\ HasRecord(auditLog, "ALLOWED", "c1")
  /\ nEvents >= 2 /\ cur = "c1" /\ Resolved /\ ~Has(steps, "cache") /\ pc = "wait"

\* C5: in safe mode no remove call is ever issued; a container found running is
\* stopped and nothing more.
C5_SafeModeNeverRemoves ==
  safe_mode =>
    /\ \A c \in Cids : calls[c].remove = 0
    /\ pc # "remove"
    /\ (EnforceDone /\ Has(steps, "saw_running")) =>
         (StopIssued(steps) /\ ~RemoveIssued(steps))

\* C5 witness: in safe mode a running blocked container has been stopped.
C5_Witness ==
  /\ safe_mode /\ EnforceDone /\ Has(steps, "saw_running") /\ Has(steps, "stop_ok")
  /\ rt[cur] = "stopped" /\ calls[cur].stop > 0

\* Every stop call of the steps comes before every remove call.
StopBeforeRemove(st) ==
  \A i, j \in 1..Len(st) :
    (st[i] \in {"stop_ok", "stop_notfound", "stop_error"}
       /\ st[j] \in {"remove_ok", "remove_notfound", "remove_error"}) => i < j

\* C6 as claimed: in strict mode an enforcement that found the container running
\* issues stop and then remove; one that found it stopped issues remove and no stop.
C6_StrictStopThenRemove ==
  (~safe_mode /\ EnforceDone) =>
    /\ Has(steps, "saw_running") =>
         (StopIssued(steps) /\ RemoveIssued(steps) /\ StopBeforeRemove(steps))
    /\ Has(steps, "saw_stopped") => (~StopIssued(steps) /\ RemoveIssued(steps))

\* C6 amended: in strict mode an enforcement that found the container running issues
\* stop first and remove next exactly when stop returned; one that found it stopped
\* issues remove and no stop.
C6_StrictStopThenRemoveIfStopped ==
  ~safe_mode =>
    /\ Has(steps, "saw_running") =>
         /\ RemoveIssued(steps) \/ pc = "remove" => Has(steps, "stop_ok")
         /\ StopBeforeRemove(steps)
         /\ EnforceDone => (StopIssued(steps) /\ (Has(steps, "stop_ok") => RemoveIssued(steps)))
    /\ Has(steps, "saw_stopped") =>
         /\ ~StopIssued(steps) /\ pc # "stop"
         /\ EnforceDone => RemoveIssued(steps)

\* C6 witness: strict mode, found running, stopped and then removed.
C6_Witness ==
  /\ ~safe_mode /\ EnforceDone /\ Has(steps, "saw_running")
  /\ Has(steps, "stop_ok") /\ Has(steps, "remove_ok") /\ rt[cur] = "gone"

\* The handling of an event got as far as the decision cache (lines 243, 256).
ReachedCache(st) ==
  Has(st, "get") /\ ~Has(st, "image_raised") /\ ~Has(st, "audit_CREATED_raised")

\* C7 as claimed: every create or start event for an id with a cached Block calls
\* enforce_block again and computes no verdict.
C7_EveryEventReasserts ==
  [][\A c \in Cids :
       (pc = "wait" /\ Cached(c) /\ decisions[c] = FALSE /\ nEvents' = nEvents + 1 /\ cur' = c)
         => (attempts'[c] = attempts[c] + 1 /\ computed'[c] = computed[c])]_vars

\* C7 amended: every create or start event for an id with a cached Block whose
\* handling reaches the decision cache calls enforce_block again and computes no
\* verdict.
C7_EventReachingCacheReasserts ==
  [][\A c \in Cids :
       (pc = "wait" /\ Cached(c) /\ decisions[c] = FALSE /\ nEvents' = nEvents + 1 /\ cur' = c
          /\ ReachedCache(steps'))
         => (attempts'[c] = attempts[c] + 1 /\ computed'[c] = computed[c] /\ pc' = "reload")]_vars

\* C7 witness: a second enforcement of the one verdict of an id has begun after a
\* first one that issued a stop.
C7_Witness ==
  /\ pc = "reload" /\ attempts[cur] = 2 /\ computed[cur] = 1 /\ calls[cur].stop = 1
  /\ ~Has(steps, "cache")

EnforceFailed(st) == Has(st, "stop_error") \/ Has(st, "remove_error")

\* After a failed stop or remove: a warning, the loop waits for the next event, the
\* verdict is still Block; and a Block stays a Block while the process runs.
FailureKeepsBlock ==
  /\ [](EnforceFailed(steps) =>
          (Has(steps, "warn_enforce") /\ pc = "wait" /\ Cached(cur) /\ decisions[cur] = FALSE))
  /\ [][\A c \in Cids : (Cached(c) /\ decisions[c] = FALSE /\ pc' \in Looping) =>
           (c \in DOMAIN decisions' /\ decisions'[c] = FALSE)]_vars

\* C8 as claimed: a failed stop or remove is logged as a warning, the loop goes on,
\* the verdict stays Block, and the next event for the id calls enforce_block again.
C8_FailureRetriedOnNextEvent ==
  /\ FailureKeepsBlock
  /\ [][\A c \in Cids :
          (pc = "wait" /\ cur = c /\ EnforceFailed(steps) /\ nEvents' = nEvents + 1 /\ cur' = c)
            => attempts'[c] = attempts[c] + 1]_vars

\* C8 amended: a failed stop or remove is logged as a warning, the loop goes on, the
\* verdict stays Block, and the next event for the id whose handling reaches the
\* decision cache calls enforce_block again.
C8_FailureRetriedWhenCacheReached ==
  /\ FailureKeepsBlock
  /\ [][\A c \in Cids :
          (pc = "wait" /\ cur = c /\ EnforceFailed(steps) /\ nEvents' = nEvents + 1 /\ cur' = c
             /\ ReachedCache(steps'))
            => (attempts'[c] = attempts[c] + 1 /\ pc' = "reload")]_vars

\* C8 witness: strict mode, one stop and no remove were issued for an id that is still
\* there (the stop failed), and enforcement has been retried and failed again.
C8_Witness ==
  /\ ~safe_mode /\ cur \in Cids /\ rt[cur] # "gone"
  /\ attempts[cur] = 2 /\ calls[cur].stop = 1 /\ calls[cur].remove = 1
  /\ Has(steps, "remove_error") /\ Has(steps, "warn_enforce") /\ pc = "wait"
  /\ decisions[cur] = FALSE

\* C9: an enforcement that found the container gone at its state query, and whose
\* calls were answered by the runtime, ends with the AlreadyGone information and no
\* warning, in both modes.
C9_GoneEndsAlreadyGone ==
  (EnforceDone /\ Has(steps, "reload_notfound") /\ ~EnforceFailed(steps)) =>
    (Has(steps, "info_gone") /\ ~Has(steps, "warn_enforce"))

\* C10: only an interrupt or the event stream ends the loop, never the handling of
\* an event; whatever the handling raised is logged as a warning.
C10_ErrorsDoNotEndLoop ==
  /\ pc \in {"crashed", "ended"} => exitFrom = "stream"
  /\ pc = "exit0" => exitFrom \in Looping
  /\ pc \in Looping \/ steps = << >>
  /\ (Has(steps, "image_raised") \/ Has(steps, "verify_raised")
        \/ Has(steps, "audit_CREATED_raised") \/ Has(steps, "audit_ALLOWED_raised")
        \/ Has(steps, "audit_BLOCKED_raised")) => Has(steps, "warn_event")
  /\ EnforceFailed(steps) => Has(steps, "warn_enforce")

\* C10 witness: after an event whose enforcement failed with an error (strict mode: a
\* stop and no remove for an id that is still there), a later event raised, and the
\* loop waits for the next one.
C10_Witness ==
  /\ ~safe_mode /\ \E c \in Cids : rt[c] # "gone" /\ calls[c].stop = 1 /\ calls[c].remove = 0
                                     /\ attempts[c] = 1
  /\ nEvents >= 2 /\ Has(steps, "warn_event") /\ pc = "wait"

\* The audit sink failed while the current event was handled: the directory could not
\* be made (the call raised) or the record could not be written.
AuditRaised(st) ==
  Has(st, "audit_CREATED_raised") \/ Has(st, "audit_ALLOWED_raised")
    \/ Has(st, "audit_BLOCKED_raised")
AuditWriteFailed(st) ==
  Has(st, "audit_CREATED_failed") \/ Has(st, "audit_ALLOWED_failed")
    \/ Has(st, "audit_BLOCKED_failed")

\* C11: a failure of the audit sink while an event is handled is logged as a warning
\* of the audit only and does not interrupt the handling: the verdict of the container
\* is computed and cached, and a Block is enforced.
C11_AuditFailureHarmless ==
  (pc \in Looping /\ cur \in Cids /\ ~Has(steps, "verify_raised")
     /\ (AuditRaised(steps) \/ AuditWriteFailed(steps))) =>
    /\ ~Has(steps, "warn_event")
    /\ Has(steps, "warn_audit")
    /\ Cached(cur)
    /\ decisions[cur] = FALSE => Has(steps, "enforce")

\* The policy {}.
EmptyPolicy == [isMap |-> TRUE, keys |-> {}]

\* Loading a missing or unparseable file yields {} and the loop is entered.
MissingOrCorruptLoadsEmpty ==
  [][(pc = "load" /\ policyFile.kind \in {"missing", "corrupt"})
       => (policy' = EmptyPolicy /\ pc' = "wait")]_vars

\* With policy {} and allow-unregistered off every verdict is Block and no ALLOWED
\* record is written.
EmptyPolicyBlocksAll ==
  (loads > 0 /\ policy = EmptyPolicy /\ ~allow_unregistered) =>
    \A c \in Cids : /\ Cached(c) => decisions[c] = FALSE
                    /\ ~HasRecord(auditLog, "ALLOWED", c)

C13_UnreachableAborts ==
  /\ [](exitFrom = "ping" <=> pc = "exit1")
  /\ [](pc = "exit1" =>
          /\ loads = 0 /\ nEvents = 0 /\ auditLog = << >> /\ decisions = << >>
          /\ \A c \in Cids : /\ calls[c].stop = 0 /\ calls[c].remove = 0
                             /\ attempts[c] = 0 /\ computed[c] = 0)
  /\ [][pc = "exit1" => UNCHANGED vars]_vars

\* C13 witness: the process has exited with code 1 after the failed ping, with a
\* policy file on disk that registers the image of c1.
C13_Witness ==
  pc = "exit1" /\ exitFrom = "ping" /\ policyFile.kind = "json" /\ policyFile.keys = RegisteredKeys

\* C14: once the loop has been entered the process ends only by an interrupt, taken
\* at any position of the loop, and then with exit code 0.
C14_OnlyInterruptEndsLoop ==
  (loads > 0 /\ pc \notin Looping) => (pc = "exit0" /\ exitFrom \in Looping)

\* C15: while the process runs, no step changes a cached Allow, computes a verdict,
\* adds an ALLOWED/BLOCKED record, calls enforce_block or issues a stop or remove for
\* that container id; the event being handled for such an id is not in enforce_block.
C15_CachedAllowIsNoOp ==
  /\ [](\A c \in Cids : (Cached(c) /\ decisions[c] = TRUE /\ cur = c) =>
          pc \notin {"reload", "stop", "remove"})
  /\ [][\A c \in Cids : (Cached(c) /\ decisions[c] = TRUE /\ pc' \in Looping) =>
          /\ c \in DOMAIN decisions' /\ decisions'[c] = TRUE
          /\ computed'[c] = computed[c]
          /\ VerdictRecords(auditLog', c) = VerdictRecords(auditLog, c)
          /\ calls'[c] = calls[c]
          /\ attempts'[c] = attempts[c]]_vars

\* C15 witness: the container without identity was allowed by the flag on its create
\* event, is running, and a second event for it has been handled up to the cache.
C15_Witness ==
  /\ allow_unregistered /\ Cached("c2") /\ decisions["c2"] = TRUE
  /\ nEvents = 2 /\ cur = "c2" /\ Resolved /\ ~Has(steps, "cache")
  /\ ~Has(steps, "audit_CREATED_raised") /\ pc = "wait" /\ rt["c2"] = "running"
  /\ HasRecord(auditLog, "ALLOWED", "c2")

\* C16: load_policy is called once, before the loop; no step after it changes the
\* policy the monitor holds, and no step of the monitor writes the policy file; every
\* verdict is the one the rule gives on the policy held, whatever the file holds by
\* then, and a verdict once cached does not change while the process runs.
C16_PolicySnapshot ==
  /\ [](loads <= 1 /\ (pc \in Looping => loads = 1))
  /\ [][pc # "load" => (policy' = policy /\ loads' = loads)]_vars
  /\ [][policyFile' # policyFile =>
          UNCHANGED <<pc, policy, decisions, auditLog, rt, calls, computed, attempts, loads>>]_vars
  /\ [][\A c \in Cids : computed'[c] # computed[c] =>
          decisions'[c] = IF Has(steps', "default_block") THEN FALSE
                          ELSE ( \/ (Digest(c) # None /\ Digest(c)[1] \in policy.keys)
                                 \/ allow_unregistered )]_vars
  /\ [][\A c \in Cids : (Cached(c) /\ pc' \in Looping) =>
          (c \in DOMAIN decisions' /\ decisions'[c] = decisions[c])]_vars

\* C16 witness: the monitor started without a policy file and without the flag, the
\* image of c1 was registered while it waited, and the event that followed blocked c1
\* and entered enforce_block.
C16_Witness ==
  /\ loads = 1 /\ policy = EmptyPolicy /\ ~allow_unregistered
  /\ policyFile = [kind |-> "json", isMap |-> TRUE, keys |-> RegisteredKeys]
  /\ pc = "reload" /\ cur = "c1" /\ Has(steps, "cache") /\ decisions["c1"] = FALSE

C18_FirstEventDecides ==
  (pc \in Looping /\ cur \in Cids /\ Has(steps, "get")
     /\ ~(Cached(cur) /\ ~Has(steps, "cache"))) =>
    /\ ~Has(steps, "image_raised")
    /\ Cached(cur)
    /\ HasRecord(auditLog, IF decisions[cur] THEN "ALLOWED" ELSE "BLOCKED", cur)
    /\ decisions[cur] = FALSE => Has(steps, "enforce")

\* C19: the step of enforce_block that chooses the action works with the state the
\* container has in the runtime at that moment, and chooses the action for that state.
C19_ActionFromFreshState ==
  [][(pc = "reload" /\ pc' \in Looping \ {"reload"}) =>
       /\ attrsRunning' = (rt[cur] = "running")
       /\ pc' = AfterReload(rt[cur] = "running", safe_mode)]_vars

\* The string has the separator "@".
HasAt(str) == \E k \in 1..Len(str) : str[k] = "@"

\* C20: the digest is what follows the first "@" of the first entry of RepoDigests when
\* there is a first entry and it has an "@"; otherwise (no entry, or a first entry
\* without "@") it is the local id; so it is None only when there is no such entry and
\* no local id.
C20_DigestResolutionOrder ==
  call.made =>
    LET image == call.args
        first == image.RepoDigests[1]
    IN IF Len(image.RepoDigests) > 0 /\ HasAt(first)
       THEN \E k \in 1..Len(first) :
              /\ first[k] = "@" /\ \A j \in 1..(k - 1) : first[j] # "@"
              /\ call.result = Some(SubSeq(first, k + 1, Len(first)))
       ELSE call.result = image.Id

\* C20 witness: the first entry has no "@", the second has one, and the local id is
\* set: the result is the local id.
C20_Witness ==
  /\ call.made
  /\ call.args.RepoDigests = << <<"a", "b">>, <<"r", "@", "a", "b">> >>
  /\ call.args.Id = Some(<<"x">>) /\ call.result = Some(<<"x">>)

\* C21: while the process runs no step removes an id from the decision cache or
\* changes its verdict; and an event that is not a create or start event of a
\* container changes neither the cache nor the audit log, computes no verdict, calls
\* no enforce_block and issues no stop or remove.
C21_VerdictsStay ==
  /\ [][\A c \in Cids : (Cached(c) /\ pc' \in Looping) =>
          (c \in DOMAIN decisions' /\ decisions'[c] = decisions[c])]_vars
  /\ [][(nEvents' = nEvents + 1 /\ Has(steps', "other_event")) =>
          /\ decisions' = decisions /\ auditLog' = auditLog /\ computed' = computed
          /\ attempts' = attempts /\ calls' = calls /\ rt' = rt /\ pc' = "wait"]_vars

\* C21 witness: c1 was blocked on its first event and is still there, and a second
\* event that is no create or start event has been handled.
C21_Witness ==
  /\ nEvents = 2 /\ Has(steps, "other_event") /\ ~Has(steps, "warn_event") /\ pc = "wait"
  /\ Cached("c1") /\ decisions["c1"] = FALSE /\ rt["c1"] # "gone"
  /\ HasRecord(auditLog, "BLOCKED", "c1")

\* The tag records a call of audit for a BLOCKED record, whatever became of it.
AuditBlockedTag(t) == t \in {"audit_BLOCKED", "audit_BLOCKED_failed", "audit_BLOCKED_raised"}

\* The tag records the call of enforce_block or one of its calls to the runtime.
EnforcementTag(t) ==
  t \in {"enforce", "stop_ok", "stop_notfound", "stop_error",
         "remove_ok", "remove_notfound", "remove_error"}

\* C22: while the process runs, a stop or remove has been issued for an id only if
\* its cached verdict is Block; enforce_block runs only for such an id; the event
\* that caches a Block calls the audit for the BLOCKED record after caching and
\* before enforce_block and any stop or remove; and every stop or remove is issued by
\* a step that starts with the Block already cached.
C22_EnforceOnlyCachedAuditedBlock ==
  /\ [](\A c \in Cids : (pc \in Looping /\ (calls[c].stop > 0 \/ calls[c].remove > 0)) =>
          (Cached(c) /\ decisions[c] = FALSE /\ computed[c] = 1))
  /\ [](pc \in {"reload", "stop", "remove"} =>
          (cur \in Cids /\ Cached(cur) /\ decisions[cur] = FALSE /\ Has(steps, "enforce")))
  /\ []((cur \in Cids /\ Has(steps, "cache") /\ Cached(cur) /\ decisions[cur] = FALSE) =>
          \E i, j \in 1..Len(steps) :
            /\ i < j /\ steps[i] = "cache" /\ AuditBlockedTag(steps[j])
            /\ \A k \in 1..Len(steps) : EnforcementTag(steps[k]) => j < k)
  /\ [][\A c \in Cids : (computed'[c] # computed[c] /\ decisions'[c] = FALSE) =>
          (calls'[c] = calls[c] /\ \E j \in 1..Len(steps') : AuditBlockedTag(steps'[j]))]_vars
  /\ [][\A c \in Cids : calls'[c] # calls[c] =>
          (Cached(c) /\ decisions[c] = FALSE /\ Has(steps, "enforce") /\ cur = c)]_vars

\* C22 witness: the BLOCKED audit of c1 did not write its record, and a later event
\* for c1 enforced the cached Block: the container was stopped.
C22_Witness ==
  /\ Cached("c1") /\ decisions["c1"] = FALSE /\ ~HasRecord(auditLog, "BLOCKED", "c1")
  /\ cur = "c1" /\ ~Has(steps, "cache") /\ Has(steps, "enforce") /\ Has(steps, "stop_ok")
  /\ calls["c1"].stop = 1 /\ pc \in Looping

\* The cached verdict of c is Block.
Blocked(c) == Cached(c) /\ decisions[c] = FALSE

\* The stop (remove) calls for c do not fail for ever: if such calls keep failing with
\* an error, such calls keep succeeding too.
CallsEventuallySucceed(c) ==
  /\ ([]<>(cur = c /\ Has(steps, "stop_error"))) => ([]<>(cur = c /\ Has(steps, "stop_ok")))
  /\ ([]<>(cur = c /\ Has(steps, "remove_error"))) => ([]<>(cur = c /\ Has(steps, "remove_ok")))

\* What enforcement is to achieve for c: not running, and gone in strict mode.
Enforced(c) == rt[c] # "running" /\ (~safe_mode => rt[c] = "gone")

\* C23 as claimed: if events for a blocked id keep arriving and its stop and remove
\* calls eventually succeed, the container is eventually not running, and removed in
\* strict mode.
C23_BlockedEventuallyEnforced ==
  \A c \in LiveCids : CallsEventuallySucceed(c) => [](Blocked(c) => <>Enforced(c))

\* C23 amended: the same, provided events for the id whose handling reaches the
\* decision cache keep arriving.
C23_BlockedEventuallyEnforcedIfCacheReached ==
  \A c \in LiveCids :
    (CallsEventuallySucceed(c) /\ []<>(cur = c /\ ReachedCache(steps)))
      => [](Blocked(c) => <>Enforced(c))

\* C23 witness: strict mode; an event for c1 that found its Block in the cache called
\* enforce_block again, and the container, found running, was stopped and removed.
C23_Witness ==
  /\ ~safe_mode /\ cur = "c1" /\ Blocked("c1") /\ ~Has(steps, "cache") /\ Has(steps, "enforce")
  /\ Has(steps, "saw_running") /\ Has(steps, "stop_ok") /\ Has(steps, "remove_ok")
  /\ rt["c1"] = "gone"
====
